---- MODULE Spec2Model ----
(***************************************************************************)
(* PathEditorNative (src/src/main.rs): an editor of the User and System    *)
(* PATH values stored in the Windows registry.  A Rust String is modelled  *)
(* as the sequence of its characters, each a one-character TLA+ string.    *)
(***************************************************************************)
EXTENDS Integers, Sequences, FiniteSets, TLC

\* ------------------------------------------------------------- characters

\* str::trim strips characters with the White_Space property.
IsSpace(c) == c \in {" ", "\t", "\n", "\r"}

Uppers ==
    <<"A","B","C","D","E","F","G","H","I","J","K","L","M",
      "N","O","P","Q","R","S","T","U","V","W","X","Y","Z">>

Lowers ==
    <<"a","b","c","d","e","f","g","h","i","j","k","l","m",
      "n","o","p","q","r","s","t","u","v","w","x","y","z">>

\* char-wise str::to_lowercase on the characters the model uses.
LowerChar(c) ==
    IF \E i \in DOMAIN Uppers : Uppers[i] = c
    THEN Lowers[CHOOSE i \in DOMAIN Uppers : Uppers[i] = c]
    ELSE c

\* The code point of a character of the model's alphabet; every one of them is
\* a single UTF-16 code unit and String's Ord orders them by it.
CodePoint(c) ==
    IF \E i \in DOMAIN Uppers : Uppers[i] = c
    THEN 64 + (CHOOSE i \in DOMAIN Uppers : Uppers[i] = c)
    ELSE IF \E i \in DOMAIN Lowers : Lowers[i] = c
    THEN 96 + (CHOOSE i \in DOMAIN Lowers : Lowers[i] = c)
    ELSE CASE c = "\t" -> 9
           [] c = "\n" -> 10
           [] c = "\r" -> 13
           [] c = " "  -> 32
           [] c = "%"  -> 37
           [] c = "/"  -> 47
           [] c = ":"  -> 58
           [] c = ";"  -> 59
           [] c = "\\" -> 92
           [] c = "?"  -> 65533

Alphabet ==
    {"\t", "\n", "\r", " ", "%", "/", ":", ";", "\\", "?"}
        \cup {Uppers[i] : i \in DOMAIN Uppers} \cup {Lowers[i] : i \in DOMAIN Lowers}

\* ---------------------------------------------------------------- strings

to_lowercase(s) == [i \in DOMAIN s |-> LowerChar(s[i])]

RECURSIVE TrimStart(_)
TrimStart(s) ==
    IF s # <<>> /\ IsSpace(Head(s)) THEN TrimStart(Tail(s)) ELSE s

RECURSIVE TrimEnd(_)
TrimEnd(s) ==
    IF s # <<>> /\ IsSpace(s[Len(s)]) THEN TrimEnd(SubSeq(s, 1, Len(s) - 1)) ELSE s

trim(s) == TrimEnd(TrimStart(s))

\* str::contains(needle)
contains(s, needle) ==
    \E i \in 0..(Len(s) - Len(needle)) : SubSeq(s, i + 1, i + Len(needle)) = needle

\* str::replace('/', "\\")
replace_slash(s) == [i \in DOMAIN s |-> IF s[i] = "/" THEN "\\" ELSE s[i]]

\* String's lexicographic order, a < b.
RECURSIVE StrLess(_, _)
StrLess(a, b) ==
    IF b = <<>> THEN FALSE
    ELSE IF a = <<>> THEN TRUE
    ELSE IF Head(a) # Head(b) THEN CodePoint(Head(a)) < CodePoint(Head(b))
    ELSE StrLess(Tail(a), Tail(b))

\* str::split(';'): the pieces between the separators, empty pieces included.
RECURSIVE split_on_semicolon(_)
split_on_semicolon(s) ==
    IF \E i \in DOMAIN s : s[i] = ";"
    THEN LET i == CHOOSE k \in DOMAIN s :
                      s[k] = ";" /\ \A m \in 1..(k - 1) : s[m] # ";"
         IN  <<SubSeq(s, 1, i - 1)>> \o split_on_semicolon(SubSeq(s, i + 1, Len(s)))
    ELSE <<s>>

\* Iterator::filter(|p| !p.is_empty())
RECURSIVE filter_non_empty(_)
filter_non_empty(ps) ==
    IF ps = <<>> THEN <<>>
    ELSE IF Head(ps) = <<>> THEN filter_non_empty(Tail(ps))
    ELSE <<Head(ps)>> \o filter_non_empty(Tail(ps))

\* split_path with the filter of empty pieces left out.
split_path_keep_empty(path) ==
    LET pieces == split_on_semicolon(path)
    IN  [i \in DOMAIN pieces |-> trim(pieces[i])]

split_path(path) ==
    LET pieces == split_on_semicolon(path)
    IN  filter_non_empty([i \in DOMAIN pieces |-> trim(pieces[i])])

RECURSIVE join_path(_)
join_path(parts) ==
    IF parts = <<>> THEN <<>>
    ELSE IF Len(parts) = 1 THEN parts[1]
    ELSE parts[1] \o <<";">> \o join_path(Tail(parts))

\* ------------------------------------------------------------ registry codec

\* U+FFFD REPLACEMENT CHARACTER, written "?": what String::from_utf16_lossy
\* gives for a unit that is no character of the model's alphabet.
ReplacementChar == "?"

\* str::encode_utf16().chain(Some(0)).flat_map(|u| u.to_le_bytes())
RECURSIVE le_bytes(_)
le_bytes(units) ==
    IF units = <<>> THEN <<>>
    ELSE <<Head(units) % 256, Head(units) \div 256>> \o le_bytes(Tail(units))

encode_utf16_reg(value) ==
    le_bytes([i \in DOMAIN value |-> CodePoint(value[i])] \o <<0>>)

RECURSIVE pop_nul_units(_)
pop_nul_units(utf16) ==
    IF utf16 # <<>> /\ utf16[Len(utf16)] = 0
    THEN pop_nul_units(SubSeq(utf16, 1, Len(utf16) - 1))
    ELSE utf16

from_utf16_lossy(utf16) ==
    [i \in DOMAIN utf16 |->
        IF \E c \in Alphabet : CodePoint(c) = utf16[i]
        THEN CHOOSE c \in Alphabet : CodePoint(c) = utf16[i]
        ELSE ReplacementChar]

decode_utf16_reg(bytes) ==
    IF Len(bytes) < 2 THEN <<>>
    ELSE LET utf16 == [k \in 1..(Len(bytes) \div 2) |->
                          bytes[2 * k - 1] + 256 * bytes[2 * k]]
         IN  from_utf16_lossy(pop_nul_units(utf16))

\* ------------------------------------------------------------------ tokens

\* The position of the next '%' at or after j, Len(chars) + 1 when there is none:
\* the inner while loop of has_env_token and expand_env_vars.
RECURSIVE next_percent(_, _)
next_percent(chars, j) ==
    IF j <= Len(chars) /\ chars[j] # "%" THEN next_percent(chars, j + 1) ELSE j

RECURSIVE has_env_token_from(_, _)
has_env_token_from(chars, i) ==
    IF i > Len(chars) THEN FALSE
    ELSE IF chars[i] = "%"
              /\ LET j == next_percent(chars, i + 1)
                 IN  j <= Len(chars) /\ j > i + 1
         THEN TRUE
         ELSE has_env_token_from(chars, i + 1)

has_env_token(value) == has_env_token_from(value, 1)

\* ------------------------------------------------------------------- state

REG_SZ == "REG_SZ"
REG_EXPAND_SZ == "REG_EXPAND_SZ"
\* A value type that is neither string subtype.
REG_MULTI_SZ == "REG_MULTI_SZ"

\* A registry key holds no value named Path.
NoValue == [present |-> FALSE, bytes |-> <<>>, vtype |-> REG_SZ]

RegValue(bytes, vtype) == [present |-> TRUE, bytes |-> bytes, vtype |-> vtype]

VARIABLES
    user,        \* PathEditorApp.user: [parts, filter, selected, reg_type]
    system,      \* PathEditorApp.system
    status,      \* PathEditorApp.status
    is_admin,    \* PathEditorApp.is_admin
    registry,    \* the Path value of HKCU\Environment (FALSE) and of HKLM\...\Environment (TRUE)
    env_PATH,    \* the PATH variable of the process environment
    calls,       \* the OS calls and dialogs of the last handler, in order
    writes,      \* successful RegSetValueEx calls so far
    broadcasts,  \* WM_SETTINGCHANGE broadcasts sent so far
    codec        \* the arguments and results of the codec functions applied on their own

vars == <<user, system, status, is_admin, registry, env_PATH, calls, writes, broadcasts, codec>>

\* ------------------------------------------------------------- environment

\* The process environment besides PATH: T is set, every other name is not.
TValue == <<"C", ":", "\\", "a">>

\* std::env::var(name); Windows looks a variable up ignoring case.
env_var(name) ==
    LET n == to_lowercase(name)
    IN  IF n = <<"p", "a", "t", "h">> THEN [ok |-> TRUE, value |-> env_PATH]
        ELSE IF n = <<"t">> THEN [ok |-> TRUE, value |-> TValue]
        ELSE [ok |-> FALSE, value |-> <<>>]

RECURSIVE expand_from(_, _)
expand_from(chars, i) ==
    IF i > Len(chars) THEN <<>>
    ELSE LET j == next_percent(chars, i + 1)
         IN  IF chars[i] = "%" /\ j <= Len(chars) /\ j > i + 1
             THEN LET name == SubSeq(chars, i + 1, j - 1)
                      v == env_var(name)
                  IN  (IF v.ok THEN v.value ELSE <<"%">> \o name \o <<"%">>)
                          \o expand_from(chars, j + 1)
             ELSE <<chars[i]>> \o expand_from(chars, i + 1)

expand_env_vars(input) == expand_from(input, 1)

RECURSIVE pop_backslashes(_)
pop_backslashes(normalized) ==
    IF normalized # <<>> /\ normalized[Len(normalized)] = "\\"
    THEN pop_backslashes(SubSeq(normalized, 1, Len(normalized) - 1))
    ELSE normalized

normalize_for_compare(path) ==
    pop_backslashes(to_lowercase(trim(replace_slash(expand_env_vars(path)))))

RECURSIVE dedupe_loop(_, _, _)
dedupe_loop(parts, seen, out) ==
    IF parts = <<>> THEN out
    ELSE LET key == normalize_for_compare(Head(parts))
         IN  IF key \notin seen
             THEN dedupe_loop(Tail(parts), seen \cup {key}, Append(out, Head(parts)))
             ELSE dedupe_loop(Tail(parts), seen, out)

\* dedupe keyed by the raw text of an entry.
RECURSIVE dedupe_raw_loop(_, _, _)
dedupe_raw_loop(parts, seen, out) ==
    IF parts = <<>> THEN out
    ELSE IF Head(parts) \notin seen
    THEN dedupe_raw_loop(Tail(parts), seen \cup {Head(parts)}, Append(out, Head(parts)))
    ELSE dedupe_raw_loop(Tail(parts), seen, out)

dedupe_raw(parts) == dedupe_raw_loop(parts, {}, <<>>)

dedupe(parts) == dedupe_loop(parts, {}, <<>>)

\* Vec::insert of p after every element whose key is not greater: a stable sort
\* inserts equal keys in their original order.
RECURSIVE sorted_insert(_, _)
sorted_insert(sorted, p) ==
    IF sorted = <<>> THEN <<p>>
    ELSE IF StrLess(to_lowercase(p), to_lowercase(Head(sorted)))
    THEN <<p>> \o sorted
    ELSE <<Head(sorted)>> \o sorted_insert(Tail(sorted), p)

RECURSIVE sort_loop(_, _)
sort_loop(parts, sorted) ==
    IF parts = <<>> THEN sorted
    ELSE sort_loop(Tail(parts), sorted_insert(sorted, Head(parts)))

\* slice::sort_by_cached_key(|p| p.to_lowercase()): stable.
sort_case_insensitive(parts) == sort_loop(parts, <<>>)

\* ---------------------------------------------------------------- PathStore

PathStore_new(raw, reg_type) ==
    [parts |-> split_path(raw), filter |-> <<>>, selected |-> {}, reg_type |-> reg_type]

\* Positions are counted from 0, as Vec positions are.
visible_indices(st) ==
    LET filter == to_lowercase(trim(st.filter))
    IN  {idx \in 0..(Len(st.parts) - 1) :
            filter = <<>> \/ contains(to_lowercase(st.parts[idx + 1]), filter)}

\* read_reg_value that reads the value whether or not the key opens for KEY_READ.
read_reg_value_unopened(key) ==
    IF key.value.present
    THEN [ok |-> TRUE, raw |-> decode_utf16_reg(key.value.bytes), vtype |-> key.value.vtype]
    ELSE [ok |-> TRUE, raw |-> <<>>, vtype |-> REG_SZ]

\* read_reg_value: Err when the key cannot be opened for KEY_READ.
read_reg_value(key) ==
    IF ~key.key_read THEN [ok |-> FALSE, raw |-> <<>>, vtype |-> REG_SZ]
    ELSE IF key.value.present
    THEN [ok |-> TRUE, raw |-> decode_utf16_reg(key.value.bytes), vtype |-> key.value.vtype]
    ELSE [ok |-> TRUE, raw |-> <<>>, vtype |-> REG_SZ]

\* ------------------------------------------------------------ PathEditorApp

\* The app as a handler finds it (&mut self), with no call made yet.
self ==
    [user |-> user, system |-> system, status |-> status, is_admin |-> is_admin,
     registry |-> registry,
     env_PATH |-> env_PATH, calls |-> <<>>, writes |-> writes, broadcasts |-> broadcasts]

panel_title(is_system) ==
    IF is_system THEN "System PATH (HKLM)" ELSE "User PATH (HKCU)"

store(a, is_system) == IF is_system THEN a.system ELSE a.user

\* An assignment through store_mut(is_system).
store_mut(a, is_system, st) ==
    IF is_system THEN [a EXCEPT !.system = st] ELSE [a EXCEPT !.user = st]

\* MessageDialog::new()...show()
MessageDialog(a, title) ==
    [a EXCEPT !.calls = Append(@, [fn |-> "MessageDialog", title |-> title])]

\* The positions of a set in ascending order: BTreeSet::iter.
RECURSIVE ascending(_)
ascending(set) ==
    IF set = {} THEN <<>>
    ELSE LET m == CHOOSE x \in set : \A y \in set : x <= y
         IN  <<m>> \o ascending(set \ {m})

RECURSIVE reversed(_)
reversed(seq) ==
    IF seq = <<>> THEN <<>> ELSE Append(reversed(Tail(seq)), Head(seq))

\* Vec::swap on positions counted from 0.
swap(parts, i, j) ==
    [parts EXCEPT ![i + 1] = parts[j + 1], ![j + 1] = parts[i + 1]]

\* Iterator::filter_map of remove_selected: the entries at unselected positions.
RECURSIVE retain_unselected(_, _, _)
retain_unselected(parts, selected, idx) ==
    IF idx >= Len(parts) THEN <<>>
    ELSE (IF idx \in selected THEN <<>> ELSE <<parts[idx + 1]>>)
             \o retain_unselected(parts, selected, idx + 1)

\* remove_selected that removes only the selected entries the filter shows.
remove_selected_visible(a, is_system) ==
    LET st == store(a, is_system)
        before == Len(st.parts)
        parts == retain_unselected(st.parts, st.selected \cap visible_indices(st), 0)
        removed == IF before >= Len(parts) THEN before - Len(parts) ELSE 0
    IN  [store_mut(a, is_system, [st EXCEPT !.parts = parts, !.selected = {}])
            EXCEPT !.status = "Removed " \o ToString(removed) \o " "
                                  \o panel_title(is_system) \o " entry/entries"]

\* remove_selected that leaves the selection as it was.
remove_selected_unclearing(a, is_system) ==
    LET st == store(a, is_system)
        before == Len(st.parts)
        parts == retain_unselected(st.parts, st.selected, 0)
        removed == IF before >= Len(parts) THEN before - Len(parts) ELSE 0
    IN  [store_mut(a, is_system, [st EXCEPT !.parts = parts])
            EXCEPT !.status = "Removed " \o ToString(removed) \o " "
                                  \o panel_title(is_system) \o " entry/entries"]

remove_selected(a, is_system) ==
    LET st == store(a, is_system)
        before == Len(st.parts)
        parts == retain_unselected(st.parts, st.selected, 0)
        removed == IF before >= Len(parts) THEN before - Len(parts) ELSE 0
    IN  [store_mut(a, is_system, [st EXCEPT !.parts = parts, !.selected = {}])
            EXCEPT !.status = "Removed " \o ToString(removed) \o " "
                                  \o panel_title(is_system) \o " entry/entries"]

\* The for loops of move_selected over the old selection: m is [parts, new_selected].
RECURSIVE move_up_loop(_, _, _)
move_up_loop(m, old, idxs) ==
    IF idxs = <<>> THEN m
    ELSE LET idx == Head(idxs)
         IN  IF idx > 0 /\ (idx - 1) \notin old
             THEN move_up_loop(
                      [parts |-> swap(m.parts, idx, idx - 1),
                       new_selected |-> (m.new_selected \ {idx}) \cup {idx - 1}],
                      old, Tail(idxs))
             ELSE move_up_loop(m, old, Tail(idxs))

RECURSIVE move_down_loop(_, _, _)
move_down_loop(m, old, idxs) ==
    IF idxs = <<>> THEN m
    ELSE LET idx == Head(idxs)
         IN  IF idx + 1 < Len(m.parts) /\ (idx + 1) \notin old
             THEN move_down_loop(
                      [parts |-> swap(m.parts, idx, idx + 1),
                       new_selected |-> (m.new_selected \ {idx}) \cup {idx + 1}],
                      old, Tail(idxs))
             ELSE move_down_loop(m, old, Tail(idxs))

\* move_selected with the filter check left out.
move_selected_unfiltered(a, is_system, direction) ==
    LET st == store(a, is_system)
        old == st.selected
        m0 == [parts |-> st.parts, new_selected |-> old]
        m == IF direction < 0
             THEN move_up_loop(m0, old, ascending(old))
             ELSE move_down_loop(m0, old, reversed(ascending(old)))
    IN  IF old = {} THEN a
        ELSE [store_mut(a, is_system,
                        [st EXCEPT !.parts = m.parts, !.selected = m.new_selected])
                 EXCEPT !.status = "Reordered " \o panel_title(is_system)]

\* move_selected that leaves the selection at the old positions.
move_selected_untracked(a, is_system, direction) ==
    LET st == store(a, is_system)
        old == st.selected
        m0 == [parts |-> st.parts, new_selected |-> old]
        m == IF direction < 0
             THEN move_up_loop(m0, old, ascending(old))
             ELSE move_down_loop(m0, old, reversed(ascending(old)))
    IN  IF trim(st.filter) # <<>>
        THEN MessageDialog(a, "Move disabled while filtering")
        ELSE IF old = {} THEN a
        ELSE [store_mut(a, is_system, [st EXCEPT !.parts = m.parts])
                 EXCEPT !.status = "Reordered " \o panel_title(is_system)]

move_selected(a, is_system, direction) ==
    LET st == store(a, is_system)
        old == st.selected
        m0 == [parts |-> st.parts, new_selected |-> old]
        m == IF direction < 0
             THEN move_up_loop(m0, old, ascending(old))
             ELSE move_down_loop(m0, old, reversed(ascending(old)))
    IN  IF trim(st.filter) # <<>>
        THEN MessageDialog(a, "Move disabled while filtering")
        ELSE IF old = {} THEN a
        ELSE [store_mut(a, is_system,
                        [st EXCEPT !.parts = m.parts, !.selected = m.new_selected])
                 EXCEPT !.status = "Reordered " \o panel_title(is_system)]

apply_dedupe(a, is_system) ==
    LET st == store(a, is_system)
        before == Len(st.parts)
        parts == dedupe(st.parts)
        removed == IF before >= Len(parts) THEN before - Len(parts) ELSE 0
    IN  [store_mut(a, is_system, [st EXCEPT !.parts = parts, !.selected = {}])
            EXCEPT !.status = "Dedupe removed " \o ToString(removed)
                                  \o " entries from " \o panel_title(is_system)]

apply_sort(a, is_system) ==
    LET st == store(a, is_system)
    IN  [store_mut(a, is_system,
                   [st EXCEPT !.parts = sort_case_insensitive(st.parts), !.selected = {}])
            EXCEPT !.status = "Sorted " \o panel_title(is_system)]

\* ------------------------------------------------------------------- saving

\* select_encoding that falls back to REG_SZ whenever there is no token.
select_encoding_plain(value, reg_type) ==
    IF has_env_token(value) THEN REG_EXPAND_SZ ELSE REG_SZ

\* The value type write_path settles on before it writes (its first if/else).
select_encoding(value, reg_type) ==
    IF has_env_token(value) THEN REG_EXPAND_SZ
    ELSE IF reg_type # REG_SZ /\ reg_type # REG_EXPAND_SZ THEN REG_SZ
    ELSE reg_type

\* How a call of write_reg_value ends: the key opens and the value is set, the
\* key cannot be opened for KEY_SET_VALUE, or set_raw_value fails.
WriteOutcomes == {"ok", "open_failed", "set_failed"}

\* write_reg_value on the key of a scope; the result is [ok, app].
write_reg_value(a, is_system, value, vtype, outcome) ==
    LET call == [fn |-> "write_reg_value", is_system |-> is_system, value |-> value,
                 vtype |-> vtype, outcome |-> outcome]
        called == [a EXCEPT !.calls = Append(@, call)]
    IN  IF outcome = "ok"
        THEN [ok |-> TRUE,
              app |-> [called EXCEPT
                          !.registry[is_system].value =
                              RegValue(encode_utf16_reg(value), vtype),
                          !.writes = @ + 1]]
        ELSE [ok |-> FALSE, app |-> called]

broadcast_env_change(a) ==
    [a EXCEPT !.calls = Append(@, [fn |-> "broadcast_env_change"]),
              !.broadcasts = @ + 1]

\* env::set_var("PATH", value)
set_var_PATH(a, value) ==
    [a EXCEPT !.calls = Append(@, [fn |-> "set_var", value |-> value]),
              !.env_PATH = value]

\* write_path storing the value type before it calls write_reg_value.
write_path_type_first(a, is_system, outcome) ==
    LET st == store(a, is_system)
        value == join_path(st.parts)
        vtype == select_encoding(value, st.reg_type)
        typed == store_mut(a, is_system, [st EXCEPT !.reg_type = vtype])
        w == write_reg_value(typed, is_system, value, vtype, outcome)
        sent == broadcast_env_change(w.app)
        merged == join_path(sent.user.parts \o sent.system.parts)
    IN  IF ~w.ok THEN w
        ELSE [ok |-> TRUE,
              app |-> set_var_PATH(sent, IF is_system THEN merged ELSE value)]

\* write_path broadcasting before it calls write_reg_value.
write_path_broadcast_first(a, is_system, outcome) ==
    LET st == store(a, is_system)
        value == join_path(st.parts)
        vtype == select_encoding(value, st.reg_type)
        sent == broadcast_env_change(a)
        w == write_reg_value(sent, is_system, value, vtype, outcome)
        typed == store_mut(w.app, is_system, [store(w.app, is_system) EXCEPT !.reg_type = vtype])
        merged == join_path(typed.user.parts \o typed.system.parts)
    IN  IF ~w.ok THEN w
        ELSE [ok |-> TRUE,
              app |-> set_var_PATH(typed, IF is_system THEN merged ELSE value)]

\* write_path merging the System entries ahead of the User entries.
write_path_system_first(a, is_system, outcome) ==
    LET st == store(a, is_system)
        value == join_path(st.parts)
        vtype == select_encoding(value, st.reg_type)
        w == write_reg_value(a, is_system, value, vtype, outcome)
        typed == store_mut(w.app, is_system, [store(w.app, is_system) EXCEPT !.reg_type = vtype])
        sent == broadcast_env_change(typed)
        merged == join_path(sent.system.parts \o sent.user.parts)
    IN  IF ~w.ok THEN w
        ELSE [ok |-> TRUE,
              app |-> set_var_PATH(sent, IF is_system THEN merged ELSE value)]

\* write_path; the result is [ok, app], ok = FALSE for Err.
write_path(a, is_system, outcome) ==
    LET st == store(a, is_system)
        value == join_path(st.parts)
        vtype == select_encoding(value, st.reg_type)
        w == write_reg_value(a, is_system, value, vtype, outcome)
        typed == store_mut(w.app, is_system, [store(w.app, is_system) EXCEPT !.reg_type = vtype])
        sent == broadcast_env_change(typed)
        merged == join_path(sent.user.parts \o sent.system.parts)
    IN  IF ~w.ok THEN w
        ELSE [ok |-> TRUE,
              app |-> set_var_PATH(sent, IF is_system THEN merged ELSE value)]

\* save_one with the elevation check left out.
save_one_unchecked(a, is_system, outcome) ==
    LET r == write_path(a, is_system, outcome)
        target == IF is_system THEN "System" ELSE "User"
    IN  IF r.ok
        THEN MessageDialog(
                 [r.app EXCEPT !.status =
                     "Saved " \o target \o " PATH and broadcasted change"],
                 "Saved")
        ELSE MessageDialog(r.app, "Save failed")

save_one(a, is_system, outcome) ==
    IF is_system /\ ~a.is_admin
    THEN MessageDialog(a, "Administrator required")
    ELSE LET r == write_path(a, is_system, outcome)
             target == IF is_system THEN "System" ELSE "User"
         IN  IF r.ok
             THEN MessageDialog(
                      [r.app EXCEPT !.status =
                          "Saved " \o target \o " PATH and broadcasted change"],
                      "Saved")
             ELSE MessageDialog(r.app, "Save failed")

save_all(a, outcome_user, outcome_system) ==
    LET u == write_path(a, FALSE, outcome_user)
        s == write_path(u.app, TRUE, outcome_system)
    IN  IF ~u.ok THEN MessageDialog(u.app, "Save failed")
        ELSE IF a.is_admin
        THEN IF ~s.ok THEN MessageDialog(s.app, "Save failed")
             ELSE MessageDialog(
                      [s.app EXCEPT !.status =
                          "Saved User + System PATH and broadcasted change"],
                      "Saved")
        ELSE MessageDialog(
                 [u.app EXCEPT !.status =
                     "Saved User PATH (System PATH skipped - not admin)"],
                 "Saved")

\* add_entry pushing the trimmed input whether it is empty or not.
add_entry_unchecked(a, is_system, input) ==
    LET st == store(a, is_system)
    IN  [store_mut(a, is_system, [st EXCEPT !.parts = Append(@, trim(input))])
            EXCEPT !.status = "Added entry to " \o panel_title(is_system)]

\* add_entry writing the list through to the registry.
add_entry_written(a, is_system, input) ==
    LET v == trim(input)
        st == store(a, is_system)
        added == [store_mut(a, is_system, [st EXCEPT !.parts = Append(@, v)])
                     EXCEPT !.status = "Added entry to " \o panel_title(is_system)]
    IN  IF v # <<>>
        THEN [write_reg_value(added, is_system, join_path(store(added, is_system).parts),
                              st.reg_type, "ok").app EXCEPT !.calls = <<>>, !.writes = a.writes]
        ELSE a

\* The Add button of the add dialog, with the dialog's scope and typed input.
add_entry(a, is_system, input) ==
    LET v == trim(input)
        st == store(a, is_system)
    IN  IF v # <<>>
        THEN [store_mut(a, is_system, [st EXCEPT !.parts = Append(@, v)])
                 EXCEPT !.status = "Added entry to " \o panel_title(is_system)]
        ELSE a

\* The Browse button of a panel; NoFolder is pick_folder's None.
NoFolder == <<>>

browse(a, is_system, folder) ==
    LET st == store(a, is_system)
    IN  IF folder # NoFolder
        THEN [store_mut(a, is_system, [st EXCEPT !.parts = Append(@, folder)])
                 EXCEPT !.status = "Added folder to " \o panel_title(is_system)]
        ELSE a

\* A click on a visible entry of the list, with or without Ctrl.
click_entry(a, is_system, idx, ctrl) ==
    LET st == store(a, is_system)
        selected == st.selected
    IN  store_mut(a, is_system,
            [st EXCEPT !.selected =
                IF ctrl
                THEN IF idx \in selected THEN selected \ {idx} ELSE selected \cup {idx}
                ELSE {idx}])

\* The filter TextEdit of a panel.
set_filter(a, is_system, text) ==
    store_mut(a, is_system, [store(a, is_system) EXCEPT !.filter = text])

\* ------------------------------------------------------------------- bounds

\* Add and Browse are offered while the two lists together hold fewer than
\* MaxParts entries.
MaxParts == 2

\* A session is followed until MaxWrites registry writes have succeeded (Save ALL
\* may take it one write further).
MaxWrites == 1

\* The lists the codec functions are applied to on their own: at most MaxLen
\* strings of at most MaxStrLen characters.
MaxLen == 2

MaxStrLen == 2

\* ------------------------------------------------------------------- inputs

\* Texts typed into the add dialog: blank, a padded token, one with a separator.
AddInputs ==
    { <<" ">>, <<" ", "%", "T", "%", " ">>, <<"a", ";", "b">> }

\* Folders the folder picker returns.
BrowseFolders == { <<"C", ":", "\\", "d">> }

\* Texts typed into a filter box: none, one that matches some entries.
FilterTexts == { <<>>, <<"a">> }

\* The same and a blank one, which filters nothing.
StoreFilterTexts == FilterTexts \cup { <<" ">> }

\* PATH as the process inherits it.
InheritedPATH == <<"C", ":", "\\", "w">>

Key(key_read, value) == [key_read |-> key_read, value |-> value]

\* The keys the editor may find when it starts: no Path value, a key it cannot
\* open, an expandable value with blank pieces, a value of another type with a
\* lone '%'.
AbsentKey == Key(TRUE, NoValue)

UnreadableKey == Key(FALSE, RegValue(encode_utf16_reg(<<"a">>), REG_SZ))

ExpandKey == Key(TRUE, RegValue(encode_utf16_reg(<<"a", ";", " ", ";">>), REG_EXPAND_SZ))

MultiKey == Key(TRUE, RegValue(encode_utf16_reg(<<"b", "%">>), REG_MULTI_SZ))

\* <<HKCU key, HKLM key>> at the start.
StartKeys ==
    { <<AbsentKey, AbsentKey>>, <<ExpandKey, MultiKey>>,
      <<UnreadableKey, ExpandKey>>, <<MultiKey, UnreadableKey>> }

\* Longer values, for the editing operations.
StoreKeys ==
    { Key(TRUE, RegValue(encode_utf16_reg(<<"A", ";", "B", ";", "C", ";", "D">>), REG_SZ)),
      Key(TRUE, RegValue(encode_utf16_reg(
                  <<"C", ":", "\\", "a", ";", "b", ";", "c", ":", "/", "A", "/", ";",
                    "%", "T", "%">>), REG_EXPAND_SZ)) }

CodecChars == {"a", " ", ";"}

SeqsUpTo(S, n) == UNION {[1..k -> S] : k \in 0..n}

CodecLists == SeqsUpTo(SeqsUpTo(CodecChars, MaxStrLen), MaxLen)

\* --------------------------------------------------------------------- Init

\* PathEditorApp::new over the two keys: the fields of the app it returns.
PathEditorApp_new(user_key, system_key, admin) ==
    LET u == read_reg_value(user_key)
        s == read_reg_value(system_key)
    IN  [user |-> IF u.ok THEN PathStore_new(u.raw, u.vtype) ELSE PathStore_new(<<>>, REG_SZ),
         system |-> IF s.ok THEN PathStore_new(s.raw, s.vtype) ELSE PathStore_new(<<>>, REG_SZ),
         status |-> "Ready",
         is_admin |-> admin]

\* The state once the app is constructed over the two keys.
new(user_key, system_key, admin) ==
    LET a == PathEditorApp_new(user_key, system_key, admin)
    IN  /\ registry = [is_system \in BOOLEAN |-> IF is_system THEN system_key ELSE user_key]
        /\ user = a.user
        /\ system = a.system
        /\ status = a.status
        /\ is_admin = a.is_admin
        /\ env_PATH = InheritedPATH
        /\ calls = <<>>
        /\ writes = 0
        /\ broadcasts = 0

CodecIdle == [phase |-> "idle", xs |-> <<>>, text |-> <<>>, out |-> <<>>]

Init ==
    /\ \E keys \in StartKeys, admin \in BOOLEAN : new(keys[1], keys[2], admin)
    /\ codec = CodecIdle

\* ------------------------------------------------------------------ actions

Becomes(a) ==
    /\ writes < MaxWrites
    /\ user' = a.user
    /\ system' = a.system
    /\ status' = a.status
    /\ registry' = a.registry
    /\ env_PATH' = a.env_PATH
    /\ calls' = a.calls
    /\ writes' = a.writes
    /\ broadcasts' = a.broadcasts
    /\ is_admin' = a.is_admin
    /\ UNCHANGED codec

SetFilter(is_system, text) ==
    /\ text # store(self, is_system).filter
    /\ Becomes(set_filter(self, is_system, text))

ClickEntry(is_system, idx, ctrl) ==
    /\ idx \in visible_indices(store(self, is_system))
    /\ Becomes(click_entry(self, is_system, idx, ctrl))

AddEntry(is_system, input) ==
    /\ Len(user.parts) + Len(system.parts) < MaxParts
    /\ Becomes(add_entry(self, is_system, input))

Browse(is_system, folder) ==
    /\ Len(user.parts) + Len(system.parts) < MaxParts
    /\ Becomes(browse(self, is_system, folder))

Remove(is_system) == Becomes(remove_selected(self, is_system))

Move(is_system, direction) == Becomes(move_selected(self, is_system, direction))

Dedupe(is_system) == Becomes(apply_dedupe(self, is_system))

Sort(is_system) == Becomes(apply_sort(self, is_system))

Save(is_system, outcome) == Becomes(save_one(self, is_system, outcome))

SaveAll(outcome_user, outcome_system) ==
    Becomes(save_all(self, outcome_user, outcome_system))

Next ==
    \/ \E is_system \in BOOLEAN, text \in FilterTexts : SetFilter(is_system, text)
    \/ \E is_system \in BOOLEAN, ctrl \in BOOLEAN :
           \E idx \in visible_indices(store(self, is_system)) :
               ClickEntry(is_system, idx, ctrl)
    \/ \E is_system \in BOOLEAN, input \in AddInputs : AddEntry(is_system, input)
    \/ \E is_system \in BOOLEAN, folder \in BrowseFolders \cup {NoFolder} :
           Browse(is_system, folder)
    \/ \E is_system \in BOOLEAN : Remove(is_system)
    \/ \E is_system \in BOOLEAN, direction \in {-1, 1} : Move(is_system, direction)
    \/ \E is_system \in BOOLEAN : Dedupe(is_system)
    \/ \E is_system \in BOOLEAN : Sort(is_system)
    \/ \E is_system \in BOOLEAN, outcome \in WriteOutcomes : Save(is_system, outcome)
    \/ \E outcome_user \in WriteOutcomes, outcome_system \in WriteOutcomes :
           SaveAll(outcome_user, outcome_system)

Spec == Init /\ [][Next]_vars

\* ------------------------------------------------- editing one longer list

\* The User list starts with four entries and is edited through the panel.
InitStore ==
    /\ \E key \in StoreKeys : new(key, AbsentKey, FALSE)
    /\ codec = CodecIdle

NextStore ==
    \/ \E text \in StoreFilterTexts : SetFilter(FALSE, text)
    \/ \E ctrl \in BOOLEAN :
           \E idx \in visible_indices(user) : ClickEntry(FALSE, idx, ctrl)
    \/ Remove(FALSE)
    \/ \E direction \in {-1, 1} : Move(FALSE, direction)
    \/ Dedupe(FALSE)
    \/ Sort(FALSE)

SpecStore == InitStore /\ [][NextStore]_vars

\* ------------------------------------------------ the codec functions alone

InitCodec ==
    /\ new(AbsentKey, AbsentKey, FALSE)
    /\ \E xs \in CodecLists :
           codec = [phase |-> "given", xs |-> xs, text |-> <<>>, out |-> <<>>]

CodecJoin ==
    /\ codec.phase = "given"
    /\ codec' = [codec EXCEPT !.phase = "joined", !.text = join_path(codec.xs)]
    /\ UNCHANGED <<user, system, status, is_admin, registry, env_PATH, calls,
                   writes, broadcasts>>

CodecSplit ==
    /\ codec.phase = "joined"
    /\ codec' = [codec EXCEPT !.phase = "split", !.out = split_path(codec.text)]
    /\ UNCHANGED <<user, system, status, is_admin, registry, env_PATH, calls,
                   writes, broadcasts>>

NextCodec == CodecJoin \/ CodecSplit

SpecCodec == InitCodec /\ [][NextCodec]_vars

\* ------------------------------------------------------- construction alone

\* Path values the registry may hold when the editor starts.
LoadTexts == { <<>>, <<"a", ";", " ", ";">>, <<"b", "%">> }

LoadValues ==
    {NoValue} \cup
        {RegValue(encode_utf16_reg(text), vtype) :
            text \in LoadTexts, vtype \in {REG_SZ, REG_EXPAND_SZ, REG_MULTI_SZ}}

LoadKeys == {Key(key_read, value) : key_read \in BOOLEAN, value \in LoadValues}

\* A panel the app has not constructed yet.
Unloaded == [parts |-> <<>>, filter |-> <<>>, selected |-> {}, reg_type |-> "unloaded"]

\* The process has started and PathEditorApp::new has not run.
InitLoad ==
    /\ \E user_key \in LoadKeys, system_key \in LoadKeys :
           registry = [is_system \in BOOLEAN |-> IF is_system THEN system_key ELSE user_key]
    /\ is_admin \in BOOLEAN
    /\ user = Unloaded
    /\ system = Unloaded
    /\ status = ""
    /\ env_PATH = InheritedPATH
    /\ calls = <<>>
    /\ writes = 0
    /\ broadcasts = 0
    /\ codec = [CodecIdle EXCEPT !.phase = "unloaded"]

\* PathEditorApp::new runs over the keys the registry holds.
Load ==
    /\ codec.phase = "unloaded"
    /\ LET a == PathEditorApp_new(registry[FALSE], registry[TRUE], is_admin)
       IN  /\ user' = a.user
           /\ system' = a.system
           /\ status' = a.status
           /\ is_admin' = a.is_admin
    /\ codec' = CodecIdle
    /\ UNCHANGED <<registry, env_PATH, calls, writes, broadcasts>>

NextLoad == Load

SpecLoad == InitLoad /\ [][NextLoad]_vars

\* ==================================================================== claims

IsWriteCall(c) == c.fn = "write_reg_value"

IsWritten(c) == IsWriteCall(c) /\ c.outcome = "ok"

MoveRejected == [fn |-> "MessageDialog", title |-> "Move disabled while filtering"]

\* ----------------------------------------------------------------------- C2

\* C2: while the filter of a scope is active (non-blank), a Move up or down of
\* any selection leaves the list, the selection and the status as they were.
C2_MoveRejectedWhileFiltering ==
    [][\A direction \in {-1, 1} :
           (trim(user.filter) # <<>> /\ Move(FALSE, direction))
               => (user' = user /\ status' = status /\ calls' = <<MoveRejected>>)]_vars

\* A Move was rejected with entries selected, one of them hidden by the filter.
C2_Witness ==
    /\ calls = <<MoveRejected>>
    /\ trim(user.filter) # <<>>
    /\ user.selected \ visible_indices(user) # {}
    /\ user.selected \cap visible_indices(user) # {}

\* ----------------------------------------------------------------------- C3

C3_IsBlock(sel) ==
    sel # {} /\ \A i, j \in sel : \A k \in i..j : k \in sel

C3_Min(sel) == CHOOSE i \in sel : \A j \in sel : i <= j

C3_Max(sel) == CHOOSE i \in sel : \A j \in sel : i >= j

\* The list with the block lo..hi (positions from 0) one place up and the entry
\* that was before it right after it.
C3_BlockUp(parts, lo, hi) ==
    [i \in DOMAIN parts |->
        IF i - 1 \in (lo - 1)..(hi - 1) THEN parts[i + 1]
        ELSE IF i - 1 = hi THEN parts[lo]
        ELSE parts[i]]

C3_ABCD == << <<"A">>, <<"B">>, <<"C">>, <<"D">> >>

C3_BCAD == << <<"B">>, <<"C">>, <<"A">>, <<"D">> >>

\* C3: with no filter active, a Move-up of a contiguous selected block that does
\* not start at position 0 moves the whole block up by one; from A,B,C,D with
\* positions 1 and 2 selected it gives B,C,A,D.
C3_MoveBlockUp ==
    [][(trim(user.filter) = <<>> /\ C3_IsBlock(user.selected)
            /\ C3_Min(user.selected) > 0 /\ Move(FALSE, -1))
          => /\ user'.parts =
                    C3_BlockUp(user.parts, C3_Min(user.selected), C3_Max(user.selected))
             /\ user'.selected = {i - 1 : i \in user.selected}
             /\ (user.parts = C3_ABCD /\ user.selected = {1, 2}
                    => user'.parts = C3_BCAD)]_vars

\* ----------------------------------------------------------------------- C8

C8_Entry(x) == x # <<>> /\ trim(x) = x /\ \A i \in DOMAIN x : x[i] # ";"

C8_Entries(xs) == \A i \in DOMAIN xs : C8_Entry(xs[i])

C8_Separators(text) == Cardinality({i \in DOMAIN text : text[i] = ";"})

\* C8: for a list xs of non-empty, trimmed, semicolon-free strings,
\* split(join(xs)) = xs, and join puts one ';' between neighbours and none at
\* either end.
C8_RoundTrip ==
    C8_Entries(codec.xs) =>
        /\ codec.phase = "split" => codec.out = codec.xs
        /\ codec.phase \in {"joined", "split"} =>
              /\ C8_Separators(codec.text) =
                     (IF codec.xs = <<>> THEN 0 ELSE Len(codec.xs) - 1)
              /\ codec.text # <<>> =>
                     codec.text[1] # ";" /\ codec.text[Len(codec.text)] # ";"

\* A list with the same entry twice went through join and split.
C8_Witness ==
    /\ codec.phase = "split"
    /\ Len(codec.xs) = 2
    /\ codec.xs[1] = codec.xs[2]
    /\ C8_Entries(codec.xs)
    /\ codec.out = codec.xs

\* ----------------------------------------------------------------------- C9

\* compare_key as the claim words it: expand, '/' to '\', trim, case-fold,
\* strip trailing '\'.
C9_Key(entry) == normalize_for_compare(entry)

\* The positions (from 1) whose key occurs at no earlier position.
C9_First(parts) ==
    {i \in DOMAIN parts : \A j \in 1..(i - 1) : C9_Key(parts[j]) # C9_Key(parts[i])}

C9_IsSubsequenceAt(out, parts, kept) ==
    /\ Len(out) = Cardinality(kept)
    /\ \A k \in DOMAIN out :
           \E i \in kept :
               /\ Cardinality({j \in kept : j < i}) = k - 1
               /\ out[k] = parts[i]

\* C9: Dedupe keeps exactly the entries whose compare_key occurs at no earlier
\* position, in their order and with their own text; no two entries of the
\* result share a compare_key.
C9_DedupeFirstWins ==
    [][Dedupe(FALSE) =>
          /\ C9_IsSubsequenceAt(user'.parts, user.parts, C9_First(user.parts))
          /\ \A i, j \in DOMAIN user'.parts :
                 i # j => C9_Key(user'.parts[i]) # C9_Key(user'.parts[j])
          /\ user'.selected = {}]_vars

\* A Dedupe removed two entries and kept one that is written otherwise than
\* its key: the kept text is the original one.
C9_Witness ==
    /\ status = "Dedupe removed 2 entries from User PATH (HKCU)"
    /\ Len(user.parts) = 2
    /\ \E i \in DOMAIN user.parts : C9_Key(user.parts[i]) # user.parts[i]

\* ----------------------------------------------------------------------- C1

AdminRequired == [fn |-> "MessageDialog", title |-> "Administrator required"]

\* What a handler leaves behind, the field is_admin aside.
C1_Effect(a) ==
    <<a.user, a.system, a.status, a.registry, a.env_PATH, a.calls, a.writes, a.broadcasts>>

\* No handler of an unelevated process calls write_reg_value on the System key.
C1_NoSystemWriteUnelevated ==
    ~is_admin => \A i \in DOMAIN calls : ~(IsWriteCall(calls[i]) /\ calls[i].is_system)

\* Save(User) does the same with is_admin set and not set.
C1_UserSaveIgnoresElevation ==
    \A outcome \in WriteOutcomes :
        C1_Effect(save_one([self EXCEPT !.is_admin = TRUE], FALSE, outcome))
            = C1_Effect(save_one([self EXCEPT !.is_admin = FALSE], FALSE, outcome))

\* C1: no write to the System key is attempted while the process is not
\* elevated: Save(System) is then rejected before any registry call and changes
\* no in-memory state, Save ALL writes the User scope only (no step that touches
\* the System value or list, or calls a write on its key, is a Save ALL of an
\* unelevated process), and Save(User) does the same elevated or not.
C1_NoSystemWriteWithoutElevation ==
    /\ [](C1_NoSystemWriteUnelevated /\ C1_UserSaveIgnoresElevation)
    /\ [][\A outcome \in WriteOutcomes :
              (~is_admin /\ Save(TRUE, outcome))
                  => /\ calls' = <<AdminRequired>>
                     /\ UNCHANGED <<user, system, status, registry, env_PATH,
                                    writes, broadcasts>>]_vars
    /\ [][(/\ ~is_admin
           /\ \/ registry'[TRUE] # registry[TRUE]
              \/ system' # system
              \/ \E i \in DOMAIN calls' : IsWriteCall(calls'[i]) /\ calls'[i].is_system)
              => ~\E outcome_user, outcome_system \in WriteOutcomes :
                     SaveAll(outcome_user, outcome_system)]_vars

\* An unelevated Save(System) of an edited System list has been rejected.
C1_Witness ==
    /\ ~is_admin
    /\ calls = <<AdminRequired>>
    /\ status = "Added entry to System PATH (HKLM)"

\* ----------------------------------------------------------------------- C4

\* A '%', one or more characters other than '%', a '%'.
C4_HasToken(text) ==
    \E i, j \in DOMAIN text :
        /\ j > i + 1
        /\ text[i] = "%" /\ text[j] = "%"
        /\ \A k \in (i + 1)..(j - 1) : text[k] # "%"

C4_Encoding(text, previous) ==
    IF C4_HasToken(text) THEN REG_EXPAND_SZ
    ELSE IF previous \in {REG_SZ, REG_EXPAND_SZ} THEN previous
    ELSE REG_SZ

\* C4: every value a save writes is the joined list of its scope, typed
\* Expandable if it holds a %NAME% token, else as the scope was typed before if
\* that is Plain or Expandable, else Plain.
C4_WrittenEncoding ==
    [][\A i \in DOMAIN calls' :
           IsWritten(calls'[i]) =>
               LET c == calls'[i]
                   st == store(self, c.is_system)
               IN  /\ c.value = join_path(st.parts)
                   /\ c.vtype = C4_Encoding(c.value, st.reg_type)
                   /\ registry'[c.is_system].value =
                          RegValue(encode_utf16_reg(c.value), c.vtype)
                   /\ (IF c.is_system THEN system' ELSE user').reg_type = c.vtype]_vars

\* A list without a token has been written as Expandable: the type it was read
\* with is kept.
C4_Witness ==
    \E i \in DOMAIN calls :
        /\ IsWritten(calls[i])
        /\ calls[i].vtype = REG_EXPAND_SZ
        /\ ~C4_HasToken(calls[i].value)
        /\ calls[i].value # <<>>

\* ----------------------------------------------------------------------- C5

C5_WriteCalls(cs) == {i \in DOMAIN cs : IsWriteCall(cs[i])}

\* The last write_reg_value call of the handler failed.
C5_LastWriteFailed(cs) ==
    \E i \in C5_WriteCalls(cs) :
        /\ cs[i].outcome # "ok"
        /\ \A j \in C5_WriteCalls(cs) : j <= i

\* C5: a failed registry write changes nothing: lists, selections, filters,
\* value types, status, broadcasts and the in-process PATH are as they were
\* before that call (for Save ALL failing on System, as the User write left them).
C5_FailedWriteChangesNothing ==
    [][C5_LastWriteFailed(calls') =>
          IF Cardinality(C5_WriteCalls(calls')) = 1
          THEN UNCHANGED <<user, system, status, is_admin, registry, env_PATH,
                           writes, broadcasts>>
          ELSE /\ system' = system
               /\ registry'[TRUE] = registry[TRUE]
               /\ status' = status
               /\ user' = [user EXCEPT !.reg_type = user'.reg_type]
               /\ env_PATH' = join_path(user.parts)
               /\ writes' = writes + 1
               /\ broadcasts' = broadcasts + 1]_vars

\* Save ALL wrote User and then failed on System, whose stored type would have
\* changed with a successful write.
C5_Witness ==
    /\ Cardinality(C5_WriteCalls(calls)) = 2
    /\ C5_LastWriteFailed(calls)
    /\ system.reg_type = REG_MULTI_SZ

\* ----------------------------------------------------------------------- C6

\* A step of an intent other than Save and Save ALL.
C6_Edit ==
    \E is_system \in BOOLEAN :
        \/ \E text \in FilterTexts : SetFilter(is_system, text)
        \/ \E ctrl \in BOOLEAN :
               \E idx \in visible_indices(store(self, is_system)) :
                   ClickEntry(is_system, idx, ctrl)
        \/ \E input \in AddInputs : AddEntry(is_system, input)
        \/ \E folder \in BrowseFolders \cup {NoFolder} : Browse(is_system, folder)
        \/ Remove(is_system)
        \/ \E direction \in {-1, 1} : Move(is_system, direction)
        \/ Dedupe(is_system)
        \/ Sort(is_system)

\* C6: the registry value of a scope (bytes and type) changes only in a Save or
\* Save ALL step that wrote it: no step that changes a value is an Add, Browse,
\* Remove, Move, Dedupe, Sort, filter or selection change.
C6_OnlySavesWrite ==
    /\ [][registry' # registry => ~C6_Edit]_vars
    /\ [][\A is_system \in BOOLEAN :
              registry'[is_system] # registry[is_system] =>
                  \E i \in DOMAIN calls' :
                      IsWritten(calls'[i]) /\ calls'[i].is_system = is_system]_vars

\* Entries were added to a list and then sorted, and the registry still holds
\* no Path value for either scope.
C6_Witness ==
    /\ status = "Sorted User PATH (HKCU)"
    /\ Len(user.parts) = 2
    /\ registry = [is_system \in BOOLEAN |-> AbsentKey]

\* ----------------------------------------------------------------------- C7

IsBroadcast(c) == c.fn = "broadcast_env_change"

C7_Written(cs) == Cardinality({i \in DOMAIN cs : IsWritten(cs[i])})

C7_Broadcasts(cs) == Cardinality({i \in DOMAIN cs : IsBroadcast(cs[i])})

\* In the calls of one handler every successful write is followed at once by a
\* broadcast and there is no other broadcast.
C7_BroadcastAfterEachWrite ==
    \A i \in DOMAIN calls :
        /\ IsWritten(calls[i]) => i < Len(calls) /\ IsBroadcast(calls[i + 1])
        /\ IsBroadcast(calls[i]) => i > 1 /\ IsWritten(calls[i - 1])

\* C7: every successful registry write is followed in the same save step by
\* exactly one broadcast, a rejected or failed save sends none, and so the
\* number of broadcasts always equals the number of successful writes.
C7_OneBroadcastPerWrite ==
    /\ [](broadcasts = writes /\ C7_BroadcastAfterEachWrite)
    /\ [][/\ writes' = writes + C7_Written(calls')
          /\ broadcasts' = broadcasts + C7_Broadcasts(calls')]_vars

\* An elevated Save ALL wrote both scopes: two writes, two broadcasts.
C7_Witness ==
    /\ C7_Written(calls) = 2
    /\ broadcasts = 2
    /\ status = "Saved User + System PATH and broadcasted change"

\* ---------------------------------------------------------------------- C10

C10_Blank(entry) == trim(entry) = <<>>

\* C10: no entry of either list is ever empty or whitespace-only, and every
\* value written to the registry is the join of such a list.
C10_NoBlankEntry ==
    /\ \A is_system \in BOOLEAN :
           \A i \in DOMAIN store(self, is_system).parts :
               ~C10_Blank(store(self, is_system).parts[i])
    /\ \A k \in DOMAIN calls :
           IsWritten(calls[k]) =>
               calls[k].value = join_path(store(self, calls[k].is_system).parts)

\* A value with blank pieces was loaded, a padded input was added to it, and the
\* list was written.
C10_Witness ==
    /\ user.parts = << <<"a">>, <<"%", "T", "%">> >>
    /\ \E k \in DOMAIN calls : IsWritten(calls[k]) /\ ~calls[k].is_system

\* ---------------------------------------------------------------------- C11

\* The text PATH is to hold after a successful write of a scope.
C11_Expected(is_system) ==
    IF is_system THEN join_path(user.parts \o system.parts) ELSE join_path(user.parts)

C11_IsSetVar(c) == c.fn = "set_var"

\* The last successful write among the calls, 0 when there is none.
C11_LastWritten(cs) ==
    LET written == {i \in DOMAIN cs : IsWritten(cs[i])}
    IN  IF written = {} THEN 0 ELSE CHOOSE i \in written : \A j \in written : j <= i

C12_EntriesOf(text) == {split_path(text)[i] : i \in DOMAIN split_path(text)}

\* The entries of the Path value a key holds.
C12_Stored(key) ==
    IF key.value.present THEN C12_EntriesOf(decode_utf16_reg(key.value.bytes)) ELSE {}

\* C12: after any successful save, every entry of the in-process PATH is an entry
\* of the value the registry holds for the User scope or for the System scope;
\* PATH has no entry that exists only as an unsaved edit.
C12_PathMatchesRegistry ==
    [][(\E i \in DOMAIN calls' : IsWritten(calls'[i])) =>
           C12_EntriesOf(env_PATH') \subseteq
               (C12_Stored(registry'[FALSE]) \cup C12_Stored(registry'[TRUE]))]_vars

\* ---------------------------------------------------------------------- C13

C13_Empty == [parts |-> <<>>, filter |-> <<>>, selected |-> {}, reg_type |-> REG_SZ]

\* What a scope is to start as, from its own key alone.
C13_Loaded(key) ==
    IF ~key.key_read \/ ~key.value.present
    THEN C13_Empty
    ELSE [C13_Empty EXCEPT !.parts = split_path(decode_utf16_reg(key.value.bytes)),
                           !.reg_type = key.value.vtype]

\* C13: loading a scope never fails: a scope whose Path value is absent or whose
\* key cannot be opened starts with an empty list, the plain value type, no
\* selection and no filter, and the other scope starts as its own key says.
C13_LoadNeverFails ==
    [][Load =>
          /\ user' = C13_Loaded(registry[FALSE])
          /\ system' = C13_Loaded(registry[TRUE])
          /\ status' = "Ready"
          /\ registry' = registry]_vars

\* The User key could not be opened, the System key held a value, and the app
\* started with an empty User list next to the System entries.
C13_Witness ==
    /\ codec.phase = "idle"
    /\ status = "Ready"
    /\ ~registry[FALSE].key_read
    /\ registry[FALSE].value.present
    /\ user = C13_Empty
    /\ system.parts = <<<<"a">>>>
    /\ system.reg_type = REG_EXPAND_SZ

\* ---------------------------------------------------------------------- C14

\* The ways to send the positions of a list of n entries to new positions.
C14_Permutations(n) ==
    {f \in [0..(n - 1) -> 0..(n - 1)] :
        \A i, j \in 0..(n - 1) : f[i] = f[j] => i = j}

\* Some rearrangement of the old list gives the new one, takes every selected
\* entry to a selected position that is its own or the next one in the direction,
\* and takes every unselected entry to an unselected position.
C14_Tracks(parts, selected, new_parts, new_selected, direction) ==
    /\ Len(new_parts) = Len(parts)
    /\ Cardinality(new_selected) = Cardinality(selected)
    /\ \E f \in C14_Permutations(Len(parts)) :
           \A i \in 0..(Len(parts) - 1) :
               /\ new_parts[f[i] + 1] = parts[i + 1]
               /\ i \in selected => f[i] \in new_selected /\ f[i] \in {i, i + direction}
               /\ i \notin selected => f[i] \notin new_selected

\* C14: with no filter active, Move up or down with any selection is a single
\* bubble pass that tracks the selected entries: the new list is a permutation of
\* the old one, the selection keeps its size, each selected entry stays selected
\* at its old position or one position further in the direction, and each
\* unselected entry stays unselected.
C14_MoveIsBubblePass ==
    [][\A direction \in {-1, 1} :
           (trim(user.filter) = <<>> /\ Move(FALSE, direction)) =>
               C14_Tracks(user.parts, user.selected, user'.parts, user'.selected,
                          direction)]_vars

\* Positions 1 and 3 of A, B, C, D were selected and moved up.
C14_Witness ==
    /\ status = "Reordered User PATH (HKCU)"
    /\ user.parts = << <<"B">>, <<"A">>, <<"D">>, <<"C">> >>
    /\ user.selected = {0, 2}

\* ---------------------------------------------------------------------- C15

\* The positions a removal keeps, and how many kept positions come before one.
C15_KeptPositions(parts, selected) == (0..(Len(parts) - 1)) \ selected

C15_Rank(parts, selected, i) ==
    Cardinality({j \in C15_KeptPositions(parts, selected) : j < i})

\* The new list holds the entries of the kept positions, in their old order.
C15_Keeps(parts, selected, new_parts) ==
    /\ Len(new_parts) = Cardinality(C15_KeptPositions(parts, selected))
    /\ \A i \in C15_KeptPositions(parts, selected) :
           new_parts[C15_Rank(parts, selected, i) + 1] = parts[i + 1]

\* C15: Remove deletes exactly the entries at the selected positions, those the
\* filter hides included, keeps every other entry in its old relative order,
\* leaves the selection empty and the filter as it was, and reports as removed
\* the number of positions that were selected.
C15_RemoveDeletesSelected ==
    [][Remove(FALSE) =>
          /\ C15_Keeps(user.parts, user.selected, user'.parts)
          /\ user'.selected = {}
          /\ user'.filter = user.filter
          /\ status' = "Removed " \o ToString(Cardinality(user.selected))
                           \o " User PATH (HKCU) entry/entries"]_vars

\* B of A, B, C, D was removed and the filter in place shows only A.
C15_Witness ==
    /\ status = "Removed 1 User PATH (HKCU) entry/entries"
    /\ user.filter = <<"a">>
    /\ user.parts = << <<"A">>, <<"C">>, <<"D">> >>
    /\ user.selected = {}

\* ---------------------------------------------------------------------- C16

\* The list a scope would load from the Path value a key holds.
C16_Reloaded(key) == split_path(decode_utf16_reg(key.value.bytes))

\* C16: save followed by reload is the identity on a scope: after a successful
\* write of a scope its key holds the encoded join of the list under the type the
\* scope now records, and decoding and splitting that value gives back the list
\* in memory.
C16_SaveReloadIdentity ==
    [][\A i \in DOMAIN calls' :
           IsWritten(calls'[i]) =>
               LET is_system == calls'[i].is_system
                   st == IF is_system THEN system' ELSE user'
                   key == registry'[is_system]
               IN  /\ key.value =
                          RegValue(encode_utf16_reg(join_path(st.parts)), st.reg_type)
                   /\ C16_Reloaded(key) = st.parts]_vars

\* ---------------------------------------------------------------------- C17

\* C17: in every reachable state the selection of each scope holds only positions
\* of that scope's list: every selected index is below the length of the list.
C17_SelectionInRange ==
    \A is_system \in BOOLEAN :
        \A idx \in store(self, is_system).selected :
            idx \in 0..(Len(store(self, is_system).parts) - 1)

\* The first of two User entries was selected and moved down to the last position.
C17_Witness ==
    /\ status = "Reordered User PATH (HKCU)"
    /\ Len(user.parts) = 2
    /\ user.selected = {1}

====
